---- MODULE Spec2Model ----
(***************************************************************************)
(* Model of the ENOUGH Resource Map pipeline's combination stage           *)
(* (pipeline/modules/combine_data.py, function run).                       *)
(*                                                                         *)
(* Data frames are sequences of records (one record per row, row order is  *)
(* sequence order).  A missing value (pandas NaN / None) is the string     *)
(* Null.  A point geometry is a pair <<lng, lat>> on a small grid, a       *)
(* polygon is the set of grid points inside it, and "point within polygon" *)
(* is membership.                                                          *)
(***************************************************************************)
EXTENDS Integers, Sequences, FiniteSets, TLC

\* ------------------------------------------------------------------ values

Null == "<null>"

isna(v) == v = Null

notna(v) == v # Null

\* Region ids (GEOID20), organization names, track labels and polygons the
\* raw boundary rows are drawn from.
RegionIds == {"R1", "R2"}

OrgNames == {"A", "B"}

TrackTypes == {"", "T"}

\* Grid points <<lng, lat>>.  <<1, 0>> lies in both polygons, <<2, 0>> only in
\* the larger one, <<3, 0>> in none.
Cells == {<<1, 0>>, <<2, 0>>, <<3, 0>>}

Polygons == {{<<1, 0>>}, {<<1, 0>>, <<2, 0>>}}

\* Largest number of raw boundary rows in the inputs of the whole-run
\* specification, and the largest number of points over all its sources.
MaxRows == 2

MaxPts == 2

\* The same for the specification that exercises the writers.
MaxEmitRows == 1

MaxEmitPts == 2

\* Largest number of raw boundary rows in the boundary loader's specification:
\* of rows that vary in their organization name, and of rows that vary in
\* their track label and polygon.
MaxOrgRows == 3

MaxTrackRows == 2
MaxRuns == 2
MaxRerunRows == 1
MaxRerunPts == 1
MaxMissingRows == 1
MaxNormPts == 2
MaxFetchRows == 1
MaxCacheRows == 1
MaxExcelCalls == 2
MaxElements == 1
MaxRecords == 1

\* All sequences over S of length at most n.
SeqUpTo(S, n) == UNION {[1..k -> S] : k \in 0..n}

\* ------------------------------------------------------------ data frames

\* df[mask]: the rows of df whose position is in I, in row order.
RECURSIVE take(_, _, _)
take(df, I, n) ==
    IF n = 0 THEN <<>>
    ELSE IF n \in I THEN Append(take(df, I, n - 1), df[n])
         ELSE take(df, I, n - 1)

rows_at(df, I) == take(df, I, Len(df))

\* Series.unique(): the distinct values of a column in order of first
\* appearance.
RECURSIVE unique(_)
unique(col) ==
    IF col = <<>> THEN <<>>
    ELSE LET n == Len(col)
             head == unique(SubSeq(col, 1, n - 1))
         IN IF \E i \in 1..Len(head) : head[i] = col[n]
            THEN head
            ELSE Append(head, col[n])

\* Series.dropna(): the non-null values of a column, in order.
dropna(col) == SelectSeq(col, notna)

\* sep.join(values)
RECURSIVE join(_, _)
join(sep, values) ==
    IF values = <<>> THEN ""
    ELSE IF Len(values) = 1 THEN values[1]
         ELSE join(sep, SubSeq(values, 1, Len(values) - 1))
              \o sep \o values[Len(values)]

\* GroupBy "first": the first non-null value of the group's column, null when
\* the group has none (pandas skips nulls in first()).
first(col) ==
    IF dropna(col) = <<>> THEN Null ELSE dropna(col)[1]

\* The column `name` of the rows of df.
column(df, name) == [i \in 1..Len(df) |-> df[i][name]]

\* --------------------------------------------------------- boundary loader

\* A variant of the deduplication that keeps the last row of every value.
drop_duplicates_keep_last(df) ==
    {i \in 1..Len(df) : \A j \in (i + 1)..Len(df) : df[j].GEOID20 # df[i].GEOID20}

\* drop_duplicates(subset="GEOID20")[["GEOID20", "geometry"]]: the first row
\* of every GEOID20 value (null counts as a value), two columns kept.
drop_duplicates_keep(df) ==
    {i \in 1..Len(df) : \A j \in 1..(i - 1) : df[j].GEOID20 # df[i].GEOID20}

unique_geometry(gdf) ==
    LET kept == rows_at(gdf, drop_duplicates_keep(gdf))
    IN [i \in 1..Len(kept) |->
           [GEOID20 |-> kept[i].GEOID20, geometry |-> kept[i].geometry]]

\* The rows of one group of groupby("GEOID20"), in source order.
group(gdf, key) == rows_at(gdf, {i \in 1..Len(gdf) : gdf[i].GEOID20 = key})

\* A variant of the name aggregation that joins every non-null name.
agg_organization_name_all(col) == join("; ", dropna(col))

\* The aggregation of the organization names of one group.
agg_organization_name(col) == join("; ", unique(dropna(col)))

\* A variant of the label aggregation that takes the first row's value, null
\* or not.
agg_track_type_row(col) == col[1]

\* The aggregation of the track labels of one group.
agg_track_type(col) == first(col)

\* groupby("GEOID20").agg(...): one entry per non-null key.
grantee_data(gdf) ==
    [key \in {gdf[i].GEOID20 : i \in 1..Len(gdf)} \ {Null} |->
        [ORGANIZATION_NAME |->
             agg_organization_name(column(group(gdf, key), "ORGANIZATION_NAME")),
         GOC_TRACK_TYPE |->
             agg_track_type(column(group(gdf, key), "GOC_TRACK_TYPE"))]]

\* unique_geometry.merge(grantee_data, on="GEOID20"): inner join, in the
\* order of the left frame.
merge(left, right) ==
    LET hit == rows_at(left, {i \in 1..Len(left) : left[i].GEOID20 \in DOMAIN right})
    IN [i \in 1..Len(hit) |->
           [GEOID20 |-> hit[i].GEOID20,
            geometry |-> hit[i].geometry,
            ORGANIZATION_NAME |-> right[hit[i].GEOID20].ORGANIZATION_NAME,
            GOC_TRACK_TYPE |-> right[hit[i].GEOID20].GOC_TRACK_TYPE]]

\* A variant of the eligibility test that forgets the empty label.
is_eligible_row_notna(row) == notna(row.GOC_TRACK_TYPE)

\* The eligibility test on one processed row.
is_eligible_row(row) == notna(row.GOC_TRACK_TYPE) /\ row.GOC_TRACK_TYPE # ""

\* grantees: the processed rows with a non-null, non-empty track label.
eligible(processed) == SelectSeq(processed, is_eligible_row)

\* -------------------------------------------------------- schema normalizer

\* The missing value of a numeric column (lat, lng, quality): a number no
\* coordinate and no rating takes.
NaN == 0 - 1

\* The input files of the point sources, in the order run reads them.
SourceFiles ==
    <<"resources.csv", "fdic.geojson", "ncua.geojson", "childcare.geojson",
      "maryland_food_bank.geojson", "capital_area_food_bank.geojson">>

\* The boolean service flags kept from the credit-union source.
ncua_boolean_fields ==
    <<"isMainOffice", "isMdi", "bilingual_Services", "credit_Builder",
      "financial_Counseling", "first_Time_Homebuyer_Program", "inSchoolBranch",
      "low_cost_wire_transfers", "no_Cost_Tax_Preparation",
      "no_Cost_Share_Drafts", "payday_alternative_loans">>

Range(s) == {s[i] : i \in 1..Len(s)}

\* The columns of the combined frame; the numeric ones are padded with NaN.
NumericColumns == {"lat", "lng", "quality"}

AllColumns ==
    {"name", "type", "tag", "lat", "lng", "quality", "geometry"}
        \cup Range(ncua_boolean_fields)

\* pd.read_csv turns an empty field into a missing value.
read_csv_value(v) == IF v = "" THEN Null ELSE v

\* A variant of the combination that asks for both flags.
bool_and(a, b) == IF a = "True" /\ b = "True" THEN "True" ELSE "False"

\* a | b on two boolean columns (booleans are written "True" / "False").
bool_or(a, b) == IF a = "True" \/ b = "True" THEN "True" ELSE "False"

\* str.lower().str.replace(" ", "_") on the childcare labels.
lower_underscore(s) ==
    CASE s = Null -> Null
      [] s = "Child Care Center" -> "child_care_center"
      [] s = "Family Child Care" -> "family_child_care"

\* str.replace("_", " ").str.title() on the types and tags of the model.
title(s) ==
    CASE s = Null -> Null
      [] s = "grocery" -> "Grocery"
      [] s = "pharmacy" -> "Pharmacy"
      [] s = "supermarket" -> "Supermarket"
      [] s = "financial" -> "Financial"
      [] s = "bank" -> "Bank"
      [] s = "credit_union" -> "Credit Union"
      [] s = "childcare" -> "Childcare"
      [] s = "child_care_center" -> "Child Care Center"
      [] s = "family_child_care" -> "Family Child Care"
      [] s = "food_pantry" -> "Food Pantry"
      [] s = "Network Partners: RDOs" -> "Network Partners: Rdos"
      [] s = "Capital Area Food Bank Partner Agency"
            -> "Capital Area Food Bank Partner Agency"

\* A numeric field of resources.csv that holds text which is not a number.
NotANumber == 0 - 2

\* The header csv.DictWriter writes to resources.csv.
cbc_columns == {"name", "type", "tag", "lat", "lng"}

\* gpd.read_file: the columns of a GeoJSON file are the properties found in
\* its features, and the geometry; a file without features has no columns.
geojson_columns(rows) == UNION {DOMAIN rows[i] : i \in 1..Len(rows)}

\* A file of input/: a CSV file with its header, a GeoJSON file.
CSV(columns, rows) == [exists |-> TRUE, columns |-> columns, rows |-> rows]

GeoJSON(rows) ==
    [exists |-> TRUE, columns |-> geojson_columns(rows), rows |-> rows]

Absent == [exists |-> FALSE, columns |-> {}, rows |-> <<>>]

\* The columns the normalizer reads from each source by name: a missing one
\* raises (AttributeError on points_df.lng, KeyError elsewhere).
required(f) ==
    CASE f = "resources.csv" -> {"lat", "lng"}
      [] f = "fdic.geojson" -> {"NAMEFULL"}
      [] f = "ncua.geojson" ->
            {"creditUnionName", "palS_I", "palS_II"}
                \cup (Range(ncua_boolean_fields) \ {"payday_alternative_loans"})
      [] f = "childcare.geojson" -> {"name", "tag_label", "quality"}
      [] f = "maryland_food_bank.geojson" -> {"name", "type"}
      [] f = "capital_area_food_bank.geojson" -> {"name", "type"}

\* gpd.points_from_xy converts both columns to float64: text raises, a
\* missing value (NaN) does not.
points_from_xy_raises(rows) ==
    \E i \in 1..Len(rows) : rows[i].lat = NotANumber \/ rows[i].lng = NotANumber

\* A variant of the read that takes a missing file for a file without rows.
reads_if_present(f, file) ==
    file.exists =>
        /\ required(f) \subseteq file.columns
        /\ f = "resources.csv" => ~points_from_xy_raises(file.rows)

\* Whether the statements that read and normalize the source f complete.
reads(f, file) ==
    /\ file.exists
    /\ required(f) \subseteq file.columns
    /\ f = "resources.csv" => ~points_from_xy_raises(file.rows)

\* One row of points_gdf: the columns of resources.csv and the point built
\* from (lng, lat).
points_gdf_row(r) ==
    [c \in DOMAIN r \cup {"geometry"} |->
        CASE c = "geometry" -> <<r.lng, r.lat>>
          [] c \in {"lat", "lng"} -> r[c]
          [] OTHER -> read_csv_value(r[c])]

\* One row of fdic_gdf[["name", "type", "tag", "geometry"]].
fdic_row(r) ==
    [name |-> r.NAMEFULL, type |-> "financial", tag |-> "bank",
     geometry |-> r.geometry]

\* One row of ncua_gdf[["name", "type", "tag", "geometry"] + flags].
ncua_row(r) ==
    [c \in {"name", "type", "tag", "geometry"} \cup Range(ncua_boolean_fields) |->
        CASE c = "name" -> r.creditUnionName
          [] c = "type" -> "financial"
          [] c = "tag" -> "credit_union"
          [] c = "payday_alternative_loans" -> bool_or(r.palS_I, r.palS_II)
          [] OTHER -> r[c]]

\* One row of childcare_gdf[["name", "type", "tag", "quality", "geometry"]].
childcare_row(r) ==
    [name |-> r.name, type |-> "childcare", tag |-> lower_underscore(r.tag_label),
     quality |-> r.quality, geometry |-> r.geometry]

\* One row of mfb_gdf / cafb_gdf [["name", "type", "tag", "geometry"]].
food_bank_row(r) ==
    [name |-> r.name, type |-> "food_pantry", tag |-> r.type,
     geometry |-> r.geometry]

\* The normalized row of the record r of the source file f.
normalize(f, r) ==
    CASE f = "resources.csv" -> points_gdf_row(r)
      [] f = "fdic.geojson" -> fdic_row(r)
      [] f = "ncua.geojson" -> ncua_row(r)
      [] f = "childcare.geojson" -> childcare_row(r)
      [] f = "maryland_food_bank.geojson" -> food_bank_row(r)
      [] f = "capital_area_food_bank.geojson" -> food_bank_row(r)

\* pd.concat pads the columns a frame lacks with missing values.
pad(row) ==
    [c \in AllColumns |->
        IF c \in DOMAIN row THEN row[c]
        ELSE IF c \in NumericColumns THEN NaN ELSE Null]

\* pd.concat(frames, ignore_index=True) over the sources' normalized rows, in
\* the order POI, banks, credit unions, childcare, the two food banks.
RECURSIVE concat(_, _)
concat(files, n) ==
    IF n = 0 THEN <<>>
    ELSE concat(files, n - 1)
         \o [i \in 1..Len(files[SourceFiles[n]].rows) |->
                pad(normalize(SourceFiles[n], files[SourceFiles[n]].rows[i]))]

\* all_points with its row labels (0, 1, ...) and the two derived labels.
labelled(points) ==
    [i \in 1..Len(points) |->
        [c \in AllColumns \cup {"index", "type_label", "tag_label"} |->
            CASE c = "index" -> i - 1
              [] c = "type_label" -> title(points[i].type)
              [] c = "tag_label" -> title(points[i].tag)
              [] OTHER -> points[i][c]]]

\* ------------------------------------------------------------ spatial join

\* point.within(polygon)
within(point, polygon) == point \in polygon

\* grantees_gdf.unary_union: the union of the polygons of all raw rows.
unary_union(gdf) == UNION {gdf[i].geometry : i \in 1..Len(gdf)}

\* A variant of the in-region filter that keeps every point.
points_in_md_all(points, gdf) == points

\* all_points[all_points.within(md_tracts_union)]
points_in_md(points, gdf) ==
    rows_at(points,
            {i \in 1..Len(points) : within(points[i].geometry, unary_union(gdf))})

\* The rows of the right frame a point matches, in the right frame's order.
sjoin_matches(point, right) ==
    rows_at(right, {j \in 1..Len(right) : within(point.geometry, right[j].geometry)})

\* A variant of the left join that keeps the first matching region only.
sjoin_rows_first(point, right) ==
    LET m == sjoin_matches(point, right)
    IN <<[c \in DOMAIN point \cup {"GEOID20"} |->
            IF c = "GEOID20"
            THEN (IF m = <<>> THEN Null ELSE m[1].GEOID20)
            ELSE point[c]]>>

\* The rows a left join gives one point: one per matching region, or a single
\* row with a missing GEOID20 when no region matches.
sjoin_rows(point, right) ==
    LET m == sjoin_matches(point, right)
        with(geoid) ==
            [c \in DOMAIN point \cup {"GEOID20"} |->
                IF c = "GEOID20" THEN geoid ELSE point[c]]
    IN IF m = <<>> THEN <<with(Null)>>
       ELSE [j \in 1..Len(m) |-> with(m[j].GEOID20)]

\* gpd.sjoin(left, right, how="left", predicate="within"), index_right dropped.
RECURSIVE sjoin(_, _)
sjoin(left, right) ==
    IF left = <<>> THEN <<>>
    ELSE sjoin(SubSeq(left, 1, Len(left) - 1), right)
         \o sjoin_rows(left[Len(left)], right)

\* set(grantees["GEOID20"])
grantee_geoids(grantees_) == {grantees_[i].GEOID20 : i \in 1..Len(grantees_)}

\* Series.isin(values)
isin(v, values) == v \in values

\* points_with_tracts with its "grantee" column.
with_grantee(joined, grantees_) ==
    [i \in 1..Len(joined) |->
        [c \in DOMAIN joined[i] \cup {"grantee"} |->
            IF c = "grantee"
            THEN isin(joined[i].GEOID20, grantee_geoids(grantees_))
            ELSE joined[i][c]]]

\* ----------------------------------------------------------------- emitter

\* The csv row of a joined row: geometry dropped, lng and lat set from it.
csv_row(row) ==
    [c \in DOMAIN row \ {"geometry"} |->
        CASE c = "lng" -> row.geometry[1]
          [] c = "lat" -> row.geometry[2]
          [] OTHER -> row[c]]

\* A variant of the csv's row filter that keeps every joined row.
is_grantee_all(row) == TRUE

\* points_with_tracts[points_with_tracts["grantee"]], as written to the csv.
is_grantee(row) == row.grantee

grantee_points(joined) ==
    LET kept == SelectSeq(joined, is_grantee)
    IN [i \in 1..Len(kept) |-> csv_row(kept[i])]

\* A variant of the loop's range that goes through every known type.
unique_types_fixed(joined) ==
    <<"grocery", "pharmacy", "financial", "childcare", "food_pantry">>

\* points_with_tracts["type"].unique(): the types the loop goes through.
unique_types(joined) == unique(column(joined, "type"))

\* A variant of the per-type subset that keeps the grantee rows only.
points_subset_grantee(joined, unique_type) ==
    rows_at(joined, {i \in 1..Len(joined) :
                        joined[i].type = unique_type /\ joined[i].grantee})

\* A variant of the per-type subset that forgets the type test.
points_subset_all(joined, unique_type) == joined

\* points_with_tracts[points_with_tracts["type"] == unique_type]
points_subset(joined, unique_type) ==
    rows_at(joined, {i \in 1..Len(joined) : joined[i].type = unique_type})

\* OUTPUT_DIR / f"{unique_type}.geojson"
filename(unique_type) == unique_type \o ".geojson"

\* The types a point of the model can carry, and the files of OUTPUT_DIR.
Types == {"grocery", "pharmacy", "financial", "childcare", "food_pantry"}

OutputFiles ==
    {"grantee_points.csv", "grantees.geojson"} \cup {filename(t) : t \in Types}

NoFile == [exists |-> FALSE, rows |-> <<>>]

File(rows) == [exists |-> TRUE, rows |-> rows]

\* ------------------------------------------------------------------- state

VARIABLES
    pc,                      \* where run is: the step it takes next
    force_refresh_grantees,  \* run's argument (line 34 may set it)
    cache,                   \* input/grantees_raw.geojson
    remote,                  \* the rows the ArcGIS server holds
    requested,               \* whether run has called requests.get
    response,                \* how the request ended: "none", "ok", "failed"
    input,                   \* the six point-source files of input/
    grantees_gdf,            \* the raw boundary rows run loaded
    grantees_processed,      \* one row per region: the merged frame
    grantees,                \* the eligible boundary set
    all_points,              \* the canonical point set
    points_with_tracts,      \* the joined point set
    k,                       \* how many types the writing loop has done
    output,                  \* the files of docs/resource_map/assets
    written,                 \* the files run has written, in order
    steps,                   \* the steps run has completed, in order
    runs,                    \* how many times run has been called
    at_call,                 \* the argument and the files at run's last call
    main_pc,                 \* where main is: the call it makes next
    REFRESH,                 \* main's REFRESH_* flags
    calls,                   \* the modules main has called, in order
    web,                     \* what the servers of the fetchers hold
    childcare_csv,           \* input/maryland_childcare_data.csv
    http                     \* the requests of the last maryland_excel.run

pipelineVars == <<main_pc, REFRESH, calls, web, childcare_csv, http>>

vars ==
    <<pc, force_refresh_grantees, cache, remote, requested, response, input,
      grantees_gdf, grantees_processed, grantees, all_points, points_with_tracts, k, output,
      written, steps, runs, at_call, pipelineVars>>

\* A variant of the order that normalizes the points before the boundary
\* rows are processed.
after_points_first(step) ==
    CASE step = "fetch" -> "points"
      [] step = "points" -> "process"
      [] step = "process" -> "join"
      [] step = "join" -> "csv"
      [] step = "csv" -> "types"
      [] step = "types" -> "done"

\* The order of run's statements: the step that follows each step.
after(step) ==
    CASE step = "fetch" -> "process"
      [] step = "process" -> "points"
      [] step = "points" -> "join"
      [] step = "join" -> "csv"
      [] step = "csv" -> "types"
      [] step = "types" -> "done"

\* --------------------------------------------------------------- the steps

\* A variant of the decision that takes any cache file for a loaded one.
downloads_unless_cached(force, c) == force \/ ~c.exists

\* Lines 28-36: a download is tried when run is forced, when there is no
\* cache file, and when reading the cache file failed (line 34 sets force).
downloads(force, c) ==
    LET tried == ~force /\ c.exists
        loaded == tried /\ c.readable
    IN (force \/ (tried /\ ~c.readable)) \/ ~loaded

\* A variant of the write that saves the body of any response, an error
\* page included.
cache_after_any(outcome, c, body) ==
    IF outcome = "ok" THEN [exists |-> TRUE, readable |-> TRUE, rows |-> body]
    ELSE [exists |-> TRUE, readable |-> FALSE, rows |-> <<>>]

\* Lines 39-44: the cache file after the request.  requests.get and
\* raise_for_status raise before write_text is reached, so only the body of
\* a successful response is written.
cache_after(outcome, c, body) ==
    IF outcome = "ok" THEN [exists |-> TRUE, readable |-> TRUE, rows |-> body]
    ELSE c

\* A variant of the handler that gives up whatever the cache.
falls_back_never(c) == FALSE

\* Line 50: after a failed request the cache file is read when it exists.
falls_back(c) == c.exists

\* Lines 26-55: load the boundary rows from the cache or the server.  The
\* cache is read when run is not forced and the file exists; a download is
\* tried when run is forced or nothing was loaded; a failed download falls
\* back to the cache file, and run returns when there is none.
FetchGrantees ==
    /\ pc = "fetch"
    /\ steps' = Append(steps, pc)
    /\ UNCHANGED <<runs, at_call, pipelineVars>>
    /\ LET tried == ~force_refresh_grantees /\ cache.exists
           loaded == tried /\ cache.readable
           force == force_refresh_grantees \/ (tried /\ ~cache.readable)
       IN /\ force_refresh_grantees' = force
          /\ IF ~downloads(force_refresh_grantees, cache)
             THEN /\ grantees_gdf' = cache.rows
                  /\ pc' = after(pc)
                  /\ UNCHANGED <<cache, requested, response>>
             ELSE /\ requested' = TRUE
                  /\ response' \in {"ok", "failed"}
                  /\ cache' = cache_after(response', cache, remote)
                  /\ IF response' = "ok" \/ falls_back(cache')
                     THEN IF cache'.readable
                          THEN grantees_gdf' = cache'.rows /\ pc' = after(pc)
                          ELSE UNCHANGED grantees_gdf /\ pc' = "raised"
                     ELSE UNCHANGED grantees_gdf /\ pc' = "returned"
    /\ UNCHANGED <<remote, input, grantees_processed, grantees, all_points,
                   points_with_tracts, k, output, written>>

\* Lines 57-68: reproject (the rows are in WGS84 already, which to_crs leaves
\* as they are), deduplicate, aggregate and filter to the eligible regions.
ProcessGrantees ==
    /\ pc = "process"
    /\ steps' = Append(steps, pc)
    /\ UNCHANGED <<runs, at_call, pipelineVars>>
    /\ grantees_processed' =
           merge(unique_geometry(grantees_gdf), grantee_data(grantees_gdf))
    /\ grantees' = eligible(grantees_processed')
    /\ pc' = after(pc)
    /\ UNCHANGED <<force_refresh_grantees, cache, remote, requested, response, input,
                   grantees_gdf, all_points, points_with_tracts, k, output,
                   written>>

\* Lines 70-143: read and normalize the six point sources in order, combine
\* them and derive the labels.  Reading a missing file, a missing column
\* or a coordinate that is not a number raises.
LoadPoints ==
    /\ pc = "points"
    /\ steps' = Append(steps, pc)
    /\ UNCHANGED <<runs, at_call, pipelineVars>>
    /\ IF \A f \in Range(SourceFiles) : reads(f, input[f])
       THEN /\ all_points' = labelled(concat(input, Len(SourceFiles)))
            /\ pc' = after(pc)
       ELSE /\ UNCHANGED all_points
            /\ pc' = "raised"
    /\ UNCHANGED <<force_refresh_grantees, cache, remote, requested, response, input,
                   grantees_gdf, grantees_processed, grantees,
                   points_with_tracts, k, output, written>>

\* Lines 145-154: keep the points within the union of all raw polygons, join
\* them to the eligible regions and derive the grantee flag.
SpatialJoin ==
    /\ pc = "join"
    /\ steps' = Append(steps, pc)
    /\ UNCHANGED <<runs, at_call, pipelineVars>>
    /\ points_with_tracts' =
           with_grantee(sjoin(points_in_md(all_points, grantees_gdf), grantees),
                        grantees)
    /\ pc' = after(pc)
    /\ UNCHANGED <<force_refresh_grantees, cache, remote, requested, response, input,
                   grantees_gdf, grantees_processed, grantees, all_points, k, output, written>>

\* A variant of the write that appends to the file the directory holds.
WriteCSV_append ==
    /\ pc = "csv"
    /\ steps' = Append(steps, pc)
    /\ UNCHANGED <<runs, at_call, pipelineVars>>
    /\ output' = [output EXCEPT !["grantee_points.csv"] =
                      File(output["grantee_points.csv"].rows
                               \o grantee_points(points_with_tracts))]
    /\ written' = Append(written, "grantee_points.csv")
    /\ k' = 0
    /\ pc' = after(pc)
    /\ UNCHANGED <<force_refresh_grantees, cache, remote, requested, response, input,
                   grantees_gdf, grantees_processed, grantees, all_points, points_with_tracts>>

\* Lines 156-164: write the tabular extract.
WriteCSV ==
    /\ pc = "csv"
    /\ steps' = Append(steps, pc)
    /\ UNCHANGED <<runs, at_call, pipelineVars>>
    /\ output' = [output EXCEPT !["grantee_points.csv"] =
                      File(grantee_points(points_with_tracts))]
    /\ written' = Append(written, "grantee_points.csv")
    /\ k' = 0
    /\ pc' = after(pc)
    /\ UNCHANGED <<force_refresh_grantees, cache, remote, requested, response, input,
                   grantees_gdf, grantees_processed, grantees, all_points, points_with_tracts>>

\* Lines 166-171: one turn of the loop over the types of the joined points.
WriteTypeFile ==
    /\ pc = "types"
    /\ steps' = Append(steps, pc)
    /\ UNCHANGED <<runs, at_call, pipelineVars>>
    /\ k < Len(unique_types(points_with_tracts))
    /\ LET unique_type == unique_types(points_with_tracts)[k + 1]
       IN /\ output' = [output EXCEPT ![filename(unique_type)] =
                            File(points_subset(points_with_tracts, unique_type))]
          /\ written' = Append(written, filename(unique_type))
    /\ k' = k + 1
    /\ UNCHANGED <<pc, force_refresh_grantees, cache, remote, requested, response, input,
                   grantees_gdf, grantees_processed, grantees, all_points, points_with_tracts>>

\* Lines 173-177: after the loop, write the eligible boundary set.
WriteGrantees ==
    /\ pc = "types"
    /\ steps' = Append(steps, pc)
    /\ UNCHANGED <<runs, at_call, pipelineVars>>
    /\ k = Len(unique_types(points_with_tracts))
    /\ output' = [output EXCEPT !["grantees.geojson"] = File(grantees)]
    /\ written' = Append(written, "grantees.geojson")
    /\ pc' = after(pc)
    /\ UNCHANGED <<force_refresh_grantees, cache, remote, requested, response, input,
                   grantees_gdf, grantees_processed, grantees, all_points, points_with_tracts, k>>

\* run() is called again with the argument of the call before, on the files
\* that call left: its locals are new, the files are as they are.
Rerun ==
    /\ pc \in {"done", "returned", "raised"}
    /\ runs < MaxRuns
    /\ runs' = runs + 1
    /\ at_call' = [force |-> at_call.force, cache |-> cache, output |-> output]
    /\ force_refresh_grantees' = at_call.force
    /\ pc' = "fetch"
    /\ requested' = FALSE
    /\ response' = "none"
    /\ grantees_gdf' = <<>>
    /\ grantees_processed' = <<>>
    /\ grantees' = <<>>
    /\ all_points' = <<>>
    /\ points_with_tracts' = <<>>
    /\ k' = 0
    /\ written' = <<>>
    /\ steps' = <<>>
    /\ UNCHANGED <<cache, remote, input, output, pipelineVars>>

Next ==
    \/ FetchGrantees
    \/ ProcessGrantees
    \/ LoadPoints
    \/ SpatialJoin
    \/ WriteCSV
    \/ WriteTypeFile
    \/ WriteGrantees

\* Calls of run() one after another.
NextRerun == Next \/ Rerun

\* ------------------------------------------------------------ the fetchers

\* osm.py: two of the keys of RESOURCE_TYPES, in the order of the dict.
RESOURCE_TYPES == <<"grocery", "pharmacy">>

\* The first non-empty value of the tags in the order of priority, '' when
\* there is none (tags.get(tag_name, '') in a loop that breaks on a value).
RECURSIVE first_tag(_, _)
first_tag(tags, priority) ==
    IF priority = <<>> THEN ""
    ELSE IF tags[Head(priority)] # "" THEN tags[Head(priority)]
         ELSE first_tag(tags, Tail(priority))

\* An element has coordinates of its own (a node) or a center (a way or a
\* relation); any other element is skipped.
has_coordinates(el) == el.at \in {"node", "center"}

\* The row osm.run appends for an element of a resource type.
cbc_row(resource_type, el) ==
    LET name == first_tag(el.tags, <<"name", "operator">>)
        tag == first_tag(el.tags, <<"shop", "amenity", "healthcare">>)
    IN [name |-> IF name = "" /\ tag # "" THEN "Unnamed " \o tag ELSE name,
        type |-> resource_type, tag |-> tag, lat |-> el.lat, lng |-> el.lon]

\* resources_by_type: the elements of the answer, none when the query failed.
resources_by_type(overpass, resource_type) ==
    IF overpass[resource_type].ok THEN overpass[resource_type].elements ELSE <<>>

\* cbc_rows: the rows of the elements with coordinates, type after type.
RECURSIVE cbc_rows(_, _)
cbc_rows(overpass, n) ==
    IF n = 0 THEN <<>>
    ELSE LET resource_type == RESOURCE_TYPES[n]
             elements == SelectSeq(resources_by_type(overpass, resource_type),
                                   has_coordinates)
         IN cbc_rows(overpass, n - 1)
                \o [i \in 1..Len(elements) |-> cbc_row(resource_type, elements[i])]

\* maryland_excel.py: two of the counties of counties_to_scrape, in order.
counties_to_scrape == <<"Allegany", "Anne Arundel">>

\* float(record.get('long')), float(record.get('lat')) raise on a missing
\* value (TypeError) and on text that is not a number (ValueError).
float_raises(x) == x \in {NaN, NotANumber}

\* create_geojson_feature: the feature of a record, None (no feature) when a
\* coordinate cannot be converted.
create_geojson_feature(record) ==
    IF float_raises(record.long) \/ float_raises(record.lat) THEN <<>>
    ELSE <<[name |-> record.name, tag_label |-> record.type,
            quality |-> record.rating, geometry |-> <<record.long, record.lat>>]>>

\* process_provider_record_for_csv, cut to the columns of the model.
process_provider_record_for_csv(record) ==
    [name |-> record.name, type |-> record.type,
     overall_rating |-> record.rating, latitude |-> record.lat,
     longitude |-> record.long]

\* The records of the counties whose request succeeded, county after county.
RECURSIVE provider_data(_, _, _)
provider_data(checkccmd, up, n) ==
    IF n = 0 THEN <<>>
    ELSE provider_data(checkccmd, up, n - 1)
             \o (IF counties_to_scrape[n] \in up
                 THEN checkccmd[counties_to_scrape[n]] ELSE <<>>)

RECURSIVE all_features_for_geojson(_)
all_features_for_geojson(records) ==
    IF records = <<>> THEN <<>>
    ELSE create_geojson_feature(Head(records))
             \o all_features_for_geojson(Tail(records))

\* A variant of the test that looks at the CSV file only.
skips_if_csv(csv, geojson) == csv.exists

\* Line 109: the download is skipped when both output files exist.
skips(csv, geojson) == csv.exists /\ geojson.exists

\* maryland_excel.run: the two files and the requests after a call in which
\* the requests for the counties of `up` succeed.
maryland_excel_run(csv, geojson, checkccmd, up) ==
    IF skips(csv, geojson)
    THEN [csv |-> csv, geojson |-> geojson, http |-> <<>>]
    ELSE LET records == provider_data(checkccmd, up, Len(counties_to_scrape))
             features == all_features_for_geojson(records)
         IN [csv |-> IF records # <<>>
                     THEN CSV({"name", "type", "overall_rating", "latitude",
                               "longitude"},
                              [i \in 1..Len(records) |->
                                  process_provider_record_for_csv(records[i])])
                     ELSE csv,
             geojson |-> IF features # <<>> THEN GeoJSON(features) ELSE geojson,
             http |-> counties_to_scrape]

\* --------------------------------------------------------------- main.main

\* A variant of the order that calls the food banks before the other fetchers.
then_food_first(step) ==
    CASE step = "maryland_food_bank" -> "capital_area_food_bank"
      [] step = "capital_area_food_bank" -> "osm"
      [] step = "osm" -> "financial"
      [] step = "financial" -> "maryland_excel"
      [] step = "maryland_excel" -> "combine_data"

\* Lines 22-39 of main: the call that follows each call.
then(step) ==
    CASE step = "osm" -> "financial"
      [] step = "financial" -> "maryland_excel"
      [] step = "maryland_excel" -> "maryland_food_bank"
      [] step = "maryland_food_bank" -> "capital_area_food_bank"
      [] step = "capital_area_food_bank" -> "combine_data"

\* The variables of combine_data.run.
runVars ==
    <<pc, force_refresh_grantees, cache, remote, requested, response, grantees_gdf,
      grantees_processed, grantees, all_points, points_with_tracts, k, output,
      written, steps, runs, at_call>>

\* Lines 22-23: osm.run() when REFRESH_OSM.  Reading the shapefile can raise,
\* which ends main; otherwise resources.csv is rewritten.
MainOsm ==
    /\ main_pc = "osm"
    /\ IF REFRESH.osm
       THEN /\ calls' = Append(calls, "osm")
            /\ \E raised \in BOOLEAN :
                  IF raised
                  THEN main_pc' = "raised" /\ UNCHANGED input
                  ELSE /\ main_pc' = then(main_pc)
                       /\ input' = [input EXCEPT !["resources.csv"] =
                             CSV(cbc_columns,
                                 cbc_rows(web.overpass, Len(RESOURCE_TYPES)))]
       ELSE main_pc' = then(main_pc) /\ UNCHANGED <<calls, input>>
    /\ UNCHANGED <<runVars, REFRESH, web, childcare_csv, http>>

\* Lines 26-27: financial.run() when REFRESH_FINANCIAL.  Each of the two
\* files is written when its fetch gave rows.
MainFinancial ==
    /\ main_pc = "financial"
    /\ IF REFRESH.financial
       THEN /\ calls' = Append(calls, "financial")
            /\ \E raised \in BOOLEAN :
                  IF raised
                  THEN main_pc' = "raised" /\ UNCHANGED input
                  ELSE /\ main_pc' = then(main_pc)
                       /\ input' =
                             [f \in DOMAIN input |->
                                 IF f \in {"fdic.geojson", "ncua.geojson"}
                                        /\ web[f] # <<>>
                                 THEN GeoJSON(web[f]) ELSE input[f]]
       ELSE main_pc' = then(main_pc) /\ UNCHANGED <<calls, input>>
    /\ UNCHANGED <<runVars, REFRESH, web, childcare_csv, http>>

\* Lines 30-31: maryland_excel.run() when REFRESH_CHILDCARE.
MainChildcare ==
    /\ main_pc = "maryland_excel"
    /\ IF REFRESH.childcare
       THEN /\ calls' = Append(calls, "maryland_excel")
            /\ \E raised \in BOOLEAN, up \in SUBSET Range(counties_to_scrape) :
                  IF raised
                  THEN main_pc' = "raised"
                           /\ UNCHANGED <<input, childcare_csv, http>>
                  ELSE LET r == maryland_excel_run(childcare_csv,
                                    input["childcare.geojson"], web.checkccmd, up)
                       IN /\ main_pc' = then(main_pc)
                          /\ childcare_csv' = r.csv
                          /\ input' = [input EXCEPT !["childcare.geojson"] =
                                           r.geojson]
                          /\ http' = r.http
       ELSE main_pc' = then(main_pc)
                /\ UNCHANGED <<calls, input, childcare_csv, http>>
    /\ UNCHANGED <<runVars, REFRESH, web>>

\* Lines 34-35: maryland_food_bank.run() when REFRESH_FOODBANK.  The file is
\* written with the features of the layers that answered, even with none.
MainFoodBank ==
    /\ main_pc = "maryland_food_bank"
    /\ IF REFRESH.foodbank
       THEN /\ calls' = Append(calls, "maryland_food_bank")
            /\ \E raised \in BOOLEAN, ok \in BOOLEAN :
                  IF raised
                  THEN main_pc' = "raised" /\ UNCHANGED input
                  ELSE /\ main_pc' = then(main_pc)
                       /\ input' = [input EXCEPT !["maryland_food_bank.geojson"] =
                             GeoJSON(IF ok THEN web["maryland_food_bank.geojson"]
                                     ELSE <<>>)]
       ELSE main_pc' = then(main_pc) /\ UNCHANGED <<calls, input>>
    /\ UNCHANGED <<runVars, REFRESH, web, childcare_csv, http>>

\* Lines 34, 36: capital_area_food_bank.run() when REFRESH_FOODBANK.  A failed
\* request returns before the file is written.
MainCafb ==
    /\ main_pc = "capital_area_food_bank"
    /\ IF REFRESH.foodbank
       THEN /\ calls' = Append(calls, "capital_area_food_bank")
            /\ \E raised \in BOOLEAN, ok \in BOOLEAN :
                  IF raised
                  THEN main_pc' = "raised" /\ UNCHANGED input
                  ELSE /\ main_pc' = then(main_pc)
                       /\ input' =
                             IF ok
                             THEN [input EXCEPT
                                      !["capital_area_food_bank.geojson"] =
                                          GeoJSON(web["capital_area_food_bank.geojson"])]
                             ELSE input
       ELSE main_pc' = then(main_pc) /\ UNCHANGED <<calls, input>>
    /\ UNCHANGED <<runVars, REFRESH, web, childcare_csv, http>>

\* Line 39: combine_data.run() is called, with its default argument.
MainCombine ==
    /\ main_pc = "combine_data"
    /\ calls' = Append(calls, "combine_data")
    /\ main_pc' = "running"
    /\ pc' = "fetch"
    /\ runs' = runs + 1
    /\ force_refresh_grantees' = FALSE
    /\ at_call' = [force |-> FALSE, cache |-> cache, output |-> output]
    /\ UNCHANGED <<cache, remote, requested, response, input, grantees_gdf,
                   grantees_processed, grantees, all_points, points_with_tracts,
                   k, output, written, steps, REFRESH, web, childcare_csv, http>>

\* Lines 39-41: combine_data.run() has returned or raised, and so does main.
MainEnd ==
    /\ main_pc = "running"
    /\ pc \in {"done", "returned", "raised"}
    /\ main_pc' = IF pc = "raised" THEN "raised" ELSE "done"
    /\ UNCHANGED <<runVars, input, REFRESH, calls, web, childcare_csv, http>>

NextMain ==
    \/ MainOsm
    \/ MainFinancial
    \/ MainChildcare
    \/ MainFoodBank
    \/ MainCafb
    \/ MainCombine
    \/ Next
    \/ MainEnd

\* maryland_excel.run() called by itself.
ExcelRun ==
    /\ main_pc = "idle"
    /\ Len(calls) < MaxExcelCalls
    /\ calls' = Append(calls, "maryland_excel")
    /\ \E up \in SUBSET Range(counties_to_scrape) :
          LET r == maryland_excel_run(childcare_csv, input["childcare.geojson"],
                                      web.checkccmd, up)
          IN /\ childcare_csv' = r.csv
             /\ input' = [input EXCEPT !["childcare.geojson"] = r.geojson]
             /\ http' = r.http
    /\ UNCHANGED <<runVars, main_pc, REFRESH, web>>

NextExcel == ExcelRun

\* ------------------------------------------------------------------ inputs

\* The raw boundary rows over the given ids, names, labels and polygons.
RawRows(ids, names, tracks, polygons) ==
    [GEOID20 : ids, ORGANIZATION_NAME : names, GOC_TRACK_TYPE : tracks,
     geometry : polygons]

\* The records a point source can hold, by file.
ResourceRecs ==
    [name : {"Shop"}, type : {"grocery", "pharmacy"}, tag : {"supermarket"},
     lat : {0}, lng : {1, 2, 3}]

FdicRecs == [NAMEFULL : {"Bank"}, geometry : Cells]

NcuaRecs ==
    {[c \in (Range(ncua_boolean_fields) \ {"payday_alternative_loans"})
             \cup {"creditUnionName", "palS_I", "palS_II", "geometry"} |->
         CASE c = "creditUnionName" -> "Union"
           [] c = "geometry" -> g
           [] OTHER -> "False"] : g \in Cells}

ChildcareRecs ==
    [name : {"Care"}, tag_label : {"Child Care Center"}, quality : {3},
     geometry : Cells]

MfbRecs == [name : {"Pantry"}, type : {"Network Partners: RDOs"}, geometry : Cells]

CafbRecs ==
    [name : {"Agency"}, type : {"Capital Area Food Bank Partner Agency"},
     geometry : Cells]

\* A point of some source: the file it is in and its record.
AllPoints ==
    ({"resources.csv"} \X ResourceRecs) \cup ({"fdic.geojson"} \X FdicRecs)
        \cup ({"ncua.geojson"} \X NcuaRecs)
        \cup ({"childcare.geojson"} \X ChildcareRecs)
        \cup ({"maryland_food_bank.geojson"} \X MfbRecs)
        \cup ({"capital_area_food_bank.geojson"} \X CafbRecs)

\* The records of the file f among the points pts, in order.
RECURSIVE records_of(_, _)
records_of(pts, f) ==
    IF pts = <<>> THEN <<>>
    ELSE LET rest == records_of(SubSeq(pts, 1, Len(pts) - 1), f)
             last == pts[Len(pts)]
         IN IF last[1] = f THEN Append(rest, last[2]) ELSE rest

\* Every GeoJSON source holds a feature (a file without features has no
\* columns): a record of the source at a place outside every polygon.
BaseRec(f) ==
    CHOOSE r \in {q[2] : q \in {p \in AllPoints : p[1] = f}} :
        r.geometry = <<3, 0>>

\* The elements an Overpass answer can hold: a node, a way with a center or
\* an element without coordinates, with or without a name and a shop tag.
Elements ==
    [at : {"node", "center", "none"}, lat : {0}, lon : {1},
     tags : [name : {"Shop", ""}, operator : {""}, shop : {"supermarket", ""},
             amenity : {""}, healthcare : {""}]]

\* The provider records a county's answer can hold: coordinates that are
\* numbers, missing or text.
ProviderRecs ==
    [name : {"Care"}, type : {"Child Care Center"}, rating : {3},
     lat : {0, NotANumber}, long : {1, NaN}]

\* What the servers hold: the Overpass elements by resource type, the provider
\* records by county, and the features of the other four sources.
Web(overpass, checkccmd) ==
    [f \in {"overpass", "checkccmd", "fdic.geojson", "ncua.geojson",
            "maryland_food_bank.geojson", "capital_area_food_bank.geojson"} |->
        CASE f = "overpass" -> overpass
          [] f = "checkccmd" -> checkccmd
          [] OTHER -> <<BaseRec(f)>>]

\* Servers holding a shop with a name and a tag and a provider of the first
\* county.
PlainWeb ==
    Web([t \in Range(RESOURCE_TYPES) |->
            [ok |-> TRUE,
             elements |-> IF t = "grocery"
                          THEN <<[at |-> "node", lat |-> 0, lon |-> 1,
                                  tags |-> [name |-> "Shop", operator |-> "",
                                            shop |-> "supermarket", amenity |-> "",
                                            healthcare |-> ""]]>>
                          ELSE <<>>]],
        [c \in Range(counties_to_scrape) |->
            IF c = "Allegany"
            THEN <<[name |-> "Care", type |-> "Child Care Center", rating |-> 3,
                    lat |-> 0, long |-> 1]>>
            ELSE <<>>])

NoWeb == PlainWeb

\* run() called by itself: main is not running and no fetcher has run.
NoPipeline ==
    /\ main_pc = "idle"
    /\ REFRESH = [osm |-> FALSE, financial |-> FALSE, childcare |-> FALSE,
                  foodbank |-> FALSE]
    /\ calls = <<>>
    /\ web = NoWeb
    /\ childcare_csv = Absent
    /\ http = <<>>

\* The six source files holding the points pts.
sources(pts) ==
    [f \in Range(SourceFiles) |->
        IF f = "resources.csv"
        THEN CSV(cbc_columns, records_of(pts, f))
        ELSE GeoJSON(<<BaseRec(f)>> \o records_of(pts, f))]

\* The state at the call of run(): the call (forced or not, the cache file
\* there and readable or not), the boundary rows the cache file and the server
\* hold (pair[1] and pair[2]), the six source files, an empty output directory.
InitServed(callSet, pairSet, inputSet) ==
    \E call \in callSet, pair \in pairSet, files \in inputSet :
      LET rows == pair[1] IN
        /\ pc = "fetch"
        /\ force_refresh_grantees = call.force
        /\ cache = [exists |-> call.exists,
                    readable |-> call.exists /\ call.readable,
                    rows |-> IF call.exists /\ call.readable THEN rows ELSE <<>>]
        /\ remote = pair[2]
        /\ requested = FALSE
        /\ response = "none"
        /\ input = files
        /\ grantees_gdf = <<>>
        /\ grantees_processed = <<>>
        /\ grantees = <<>>
        /\ all_points = <<>>
        /\ points_with_tracts = <<>>
        /\ k = 0
        /\ output = [f \in OutputFiles |-> NoFile]
        /\ written = <<>>
        /\ steps = <<>>
        /\ runs = 1
        /\ at_call = [force |-> force_refresh_grantees, cache |-> cache,
                      output |-> output]
        /\ NoPipeline

\* The state at the call of run() when the cache, if readable, holds what the
\* server holds.
InitOn(callSet, rowsSet, inputSet) ==
    InitServed(callSet, {<<rows, rows>> : rows \in rowsSet}, inputSet)

InitFrom(callSet, rowsSet, ptsSet) ==
    InitOn(callSet, rowsSet, {sources(pts) : pts \in ptsSet})

\* A call of run() that is not forced and finds a readable cache.
Cached == [force |-> FALSE, exists |-> TRUE, readable |-> TRUE]

InitWith(rowsSet, ptsSet) == InitFrom({Cached}, rowsSet, ptsSet)

\* The points of the join's specification: a shop at any place.
JoinPoints == {"resources.csv"} \X {r \in ResourceRecs : r.type = "grocery"}

\* The whole run, over boundary rows of any id, label and polygon and points
\* at any place.
Init ==
    InitWith(SeqUpTo(RawRows(RegionIds, {"A"}, TrackTypes \cup {Null}, Polygons),
                     MaxRows),
             SeqUpTo(JoinPoints, MaxPts))

Spec == Init /\ [][Next]_vars

\* The whole run, over points of any source, type and place and boundary rows
\* of one id, eligible or not.
InitEmit ==
    InitWith(SeqUpTo(RawRows({"R1"}, {"A"}, {"T", Null}, Polygons), MaxEmitRows),
             SeqUpTo(AllPoints, MaxEmitPts))

SpecEmit == InitEmit /\ [][Next]_vars

\* The whole run, over boundary rows that vary in id and organization name, or
\* in id, track label and polygon (a null id included), and one shop.
InitLoader ==
    InitWith(SeqUpTo(RawRows(RegionIds \cup {Null}, OrgNames \cup {Null}, {"T"},
                             {{<<1, 0>>}}), MaxOrgRows)
                 \cup SeqUpTo(RawRows(RegionIds \cup {Null}, {"A"},
                                      TrackTypes \cup {Null}, Polygons),
                              MaxTrackRows),
             {<<<<"resources.csv",
                  [name |-> "Shop", type |-> "grocery", tag |-> "supermarket",
                   lat |-> 0, lng |-> 1]>>>>})

SpecLoader == InitLoader /\ [][Next]_vars

\* Two calls of run(), forced or not, on a readable cache that holds what the
\* server holds, over boundary rows of one id and a point of any source.
InitRerun ==
    InitFrom({[force |-> f, exists |-> TRUE, readable |-> TRUE] : f \in BOOLEAN},
             SeqUpTo(RawRows({"R1"}, {"A"}, {"T", Null}, Polygons), MaxRerunRows),
             SeqUpTo(AllPoints, MaxRerunPts))

SpecRerun == InitRerun /\ [][NextRerun]_vars

\* A file without the column c.
without(file, c) ==
    [exists |-> TRUE, columns |-> file.columns \ {c},
     rows |-> [i \in 1..Len(file.rows) |->
                  [x \in (DOMAIN file.rows[i]) \ {c} |-> file.rows[i][x]]]]

\* What can be wrong with the source f: the file is not there, it holds no
\* row (a GeoJSON file then has no column), or it lacks a column.
Defects(f) ==
    {"absent", "empty"}
        \cup (IF f = "resources.csv" THEN cbc_columns \ {"type"}
              ELSE geojson_columns(<<BaseRec(f)>>) \ {"geometry"})

defective(file, f, d) ==
    CASE d = "absent" -> Absent
      [] d = "empty" -> IF f = "resources.csv" THEN CSV(file.columns, <<>>)
                        ELSE GeoJSON(<<>>)
      [] OTHER -> without(file, d)

\* The source files with up to two defects.
DefectiveInputs(files) ==
    {files}
        \cup UNION {UNION {UNION {
                 {[[files EXCEPT ![f1] = defective(files[f1], f1, d1)]
                      EXCEPT ![f2] = defective(@, f2, d2)] : d2 \in Defects(f2)} :
                 f2 \in Range(SourceFiles)} : d1 \in Defects(f1)} :
                 f1 \in Range(SourceFiles)}

\* The whole run on source files that may be missing, empty or lacking a
\* column, over one eligible region and a shop inside it.
InitMissing ==
    InitOn({Cached},
           SeqUpTo(RawRows({"R1"}, {"A"}, {"T"}, {{<<1, 0>>}}), MaxMissingRows),
           DefectiveInputs(sources(<<<<"resources.csv",
               [name |-> "Shop", type |-> "grocery", tag |-> "supermarket",
                lat |-> 0, lng |-> 1]>>>>)))

SpecMissing == InitMissing /\ [][Next]_vars

\* Rows of resources.csv whose latitude is a number, is missing or is text.
CoordinateRecs ==
    [name : {"Shop"}, type : {"grocery"}, tag : {"supermarket"},
     lat : {0, NaN, NotANumber}, lng : {1}]

\* Credit unions with any values of the two loan flags.
PalsRecs ==
    {[r EXCEPT !.palS_I = a, !.palS_II = b] :
        r \in {q \in NcuaRecs : q.geometry = <<1, 0>>}, a, b \in {"True", "False"}}

NormPoints ==
    ({"resources.csv"} \X CoordinateRecs) \cup ({"ncua.geojson"} \X PalsRecs)
        \cup ({"fdic.geojson"} \X {r \in FdicRecs : r.geometry = <<1, 0>>})

\* The whole run, over shops with any latitude, credit unions with any loan
\* flags and banks, and one eligible region.
InitNormalize ==
    InitFrom({Cached}, {<<[GEOID20 |-> "R1", ORGANIZATION_NAME |-> "A",
                          GOC_TRACK_TYPE |-> "T", geometry |-> {<<1, 0>>}]>>},
             SeqUpTo(NormPoints, MaxNormPts))

SpecNormalize == InitNormalize /\ [][Next]_vars

\* The calls of run(): forced or not, with no cache file, a cache file that
\* cannot be read, or a readable one.
Calls ==
    {c \in [force : BOOLEAN, exists : BOOLEAN, readable : BOOLEAN] :
        c.readable => c.exists}

\* Calls of run() one after another, from any call, over boundary rows of one
\* eligible region and a shop.
InitFetch ==
    InitFrom(Calls,
             SeqUpTo(RawRows({"R1"}, {"A"}, {"T"}, Polygons), MaxFetchRows),
             {<<<<"resources.csv",
                  [name |-> "Shop", type |-> "grocery", tag |-> "supermarket",
                   lat |-> 0, lng |-> 1]>>>>})

SpecFetch == InitFetch /\ [][NextRerun]_vars

\* The state at the start of main (from "osm") or before calls of a fetcher
\* (from "idle"): combine_data.run has not been called, the cache is readable.
InitPipeline(from, flagSet, webSet, rowsSet, inputSet, csvSet) ==
    \E flags \in flagSet, w \in webSet, rows \in rowsSet, files \in inputSet,
       csv \in csvSet :
        /\ pc = "uncalled"
        /\ force_refresh_grantees = FALSE
        /\ cache = [exists |-> TRUE, readable |-> TRUE, rows |-> rows]
        /\ remote = rows
        /\ requested = FALSE
        /\ response = "none"
        /\ input = files
        /\ grantees_gdf = <<>>
        /\ grantees_processed = <<>>
        /\ grantees = <<>>
        /\ all_points = <<>>
        /\ points_with_tracts = <<>>
        /\ k = 0
        /\ output = [f \in OutputFiles |-> NoFile]
        /\ written = <<>>
        /\ steps = <<>>
        /\ runs = 0
        /\ at_call = [force |-> FALSE, cache |-> cache, output |-> output]
        /\ main_pc = from
        /\ REFRESH = flags
        /\ calls = <<>>
        /\ web = w
        /\ childcare_csv = csv
        /\ http = <<>>

Flags == [osm : BOOLEAN, financial : BOOLEAN, childcare : BOOLEAN, foodbank : BOOLEAN]

\* One eligible region around the places (1, 0) and (2, 0).
OneRegion ==
    <<[GEOID20 |-> "R1", ORGANIZATION_NAME |-> "A", GOC_TRACK_TYPE |-> "T",
       geometry |-> {<<1, 0>>, <<2, 0>>}]>>

\* The source files of an earlier pipeline run, holding a shop.
OneShop ==
    sources(<<<<"resources.csv",
                [name |-> "Shop", type |-> "grocery", tag |-> "supermarket",
                 lat |-> 0, lng |-> 2]>>>>)

\* main.main with any values of the four flags, over source files that exist,
\* with or without the childcare CSV file.
InitMain ==
    InitPipeline("osm", Flags, {PlainWeb}, {OneRegion}, {OneShop},
                 {Absent, CSV({"name"}, <<>>)})

SpecMain == InitMain /\ [][NextMain]_vars

\* main.main with REFRESH_OSM set or not, over any Overpass answer for the
\* grocery query and a pharmacy query that succeeds or fails.
InitOsm ==
    InitPipeline("osm",
                 {fl \in Flags : ~fl.financial /\ ~fl.childcare /\ ~fl.foodbank},
                 {Web([t \in Range(RESOURCE_TYPES) |->
                          IF t = "grocery" THEN [ok |-> TRUE, elements |-> els]
                          ELSE [ok |-> ok, elements |-> <<>>]],
                      PlainWeb.checkccmd) :
                     els \in SeqUpTo(Elements, MaxElements), ok \in BOOLEAN},
                 {OneRegion}, {OneShop}, {Absent})

SpecOsm == InitOsm /\ [][NextMain]_vars

\* Calls of maryland_excel.run() one after another, over any answer of the
\* two counties, with each of the two output files there or not.
InitExcel ==
    InitPipeline("idle", {[osm |-> FALSE, financial |-> FALSE,
                           childcare |-> FALSE, foodbank |-> FALSE]},
                 {Web(PlainWeb.overpass, cc) :
                     cc \in [Range(counties_to_scrape) ->
                                SeqUpTo(ProviderRecs, MaxRecords)]},
                 {OneRegion},
                 {OneShop, [OneShop EXCEPT !["childcare.geojson"] = Absent]},
                 {Absent, CSV({"name"}, <<>>)})

SpecExcel == InitExcel /\ [][NextExcel]_vars

\* Calls of run() one after another, from any call, with a cache file and a
\* server that hold any boundary rows, the same or not, and a shop.
InitCache ==
    InitServed(Calls,
               SeqUpTo(RawRows({"R1"}, {"A"}, {"T"}, Polygons), MaxCacheRows)
                   \X SeqUpTo(RawRows({"R1"}, {"A"}, {"T"}, Polygons), MaxCacheRows),
               {OneShop})

SpecCache == InitCache /\ [][NextRerun]_vars

\* ------------------------------------------------------------ properties

Joined == pc \in {"csv", "types", "done"}

Rows(f) == output[f].rows

PointFiles == OutputFiles \ {"grantees.geojson"}

\* A processed region is eligible when its track label is neither null nor
\* empty.
EligibleRegion(r) == r.GOC_TRACK_TYPE # Null /\ r.GOC_TRACK_TYPE # ""

\* C1: every row of the tabular extract has grantee = true and a non-null
\* GEOID20 that is the id of a region with a non-null, non-empty track label.
C1_EligibilityInvariant ==
    \A i \in 1..Len(Rows("grantee_points.csv")) :
        LET row == Rows("grantee_points.csv")[i]
        IN /\ row.grantee = TRUE
           /\ row.GEOID20 # Null
           /\ \E j \in 1..Len(grantees_processed) :
                 /\ grantees_processed[j].GEOID20 = row.GEOID20
                 /\ EligibleRegion(grantees_processed[j])

\* A finished run whose extract holds a row, while another retained point,
\* in no eligible region, is kept out of it.
C1_Witness ==
    /\ pc = "done"
    /\ Rows("grantee_points.csv") # <<>>
    /\ \E i \in 1..Len(points_with_tracts) : points_with_tracts[i].GEOID20 = Null

\* C2: once the join is done, a canonical point inside the polygon of an
\* eligible region has a joined row carrying that region's GEOID20, and all
\* its joined rows have grantee = true.
C2_ContainmentAssignsRegion ==
    Joined =>
        \A p \in 1..Len(all_points), j \in 1..Len(grantees_processed) :
            (/\ EligibleRegion(grantees_processed[j])
             /\ all_points[p].geometry \in grantees_processed[j].geometry)
            => /\ \E i \in 1..Len(points_with_tracts) :
                     /\ points_with_tracts[i].index = all_points[p].index
                     /\ points_with_tracts[i].GEOID20 = grantees_processed[j].GEOID20
                     /\ points_with_tracts[i].grantee = TRUE
               /\ \A i \in 1..Len(points_with_tracts) :
                     points_with_tracts[i].index = all_points[p].index
                     => points_with_tracts[i].grantee = TRUE

\* The join is done and some point lies inside an eligible region's polygon.
C2_Witness ==
    /\ Joined
    /\ \E p \in 1..Len(all_points), j \in 1..Len(grantees_processed) :
          /\ EligibleRegion(grantees_processed[j])
          /\ all_points[p].geometry \in grantees_processed[j].geometry

\* A canonical point outside the polygon of every raw boundary row.
Outside(point) ==
    \A i \in 1..Len(grantees_gdf) : point.geometry \notin grantees_gdf[i].geometry

\* C3: a point outside every boundary polygon has no row in the tabular
\* extract and none in any per-type file.
C3_OutsidePointsAbsent ==
    \A p \in 1..Len(all_points) :
        Outside(all_points[p])
        => \A f \in PointFiles : \A i \in 1..Len(Rows(f)) :
               Rows(f)[i].index # all_points[p].index

\* A finished run with a point outside all polygons and a point written to a
\* per-type file.
C3_Witness ==
    /\ pc = "done"
    /\ \E p \in 1..Len(all_points) : Outside(all_points[p])
    /\ \E t \in Types : Rows(filename(t)) # <<>>

\* C4: once the join is done, no point has two joined rows.
C4_OneRowPerPoint ==
    Joined =>
        \A i, j \in 1..Len(points_with_tracts) :
            points_with_tracts[i].index = points_with_tracts[j].index => i = j

\* C9: a region whose track label is null or empty is not in the boundary
\* file, and no joined or written point row carries its GEOID20.
C9_IneligibleRegionExcluded ==
    \A j \in 1..Len(grantees_processed) :
        ~EligibleRegion(grantees_processed[j])
        => /\ \A i \in 1..Len(Rows("grantees.geojson")) :
                 Rows("grantees.geojson")[i].GEOID20 # grantees_processed[j].GEOID20
           /\ \A i \in 1..Len(points_with_tracts) :
                 points_with_tracts[i].GEOID20 # grantees_processed[j].GEOID20
           /\ \A f \in PointFiles : \A i \in 1..Len(Rows(f)) :
                 Rows(f)[i].GEOID20 # grantees_processed[j].GEOID20

\* A finished run with a retained point inside the polygon of a region whose
\* track label is empty, and one inside a region whose label is null.
C9_Witness ==
    /\ pc = "done"
    /\ \A label \in {Null, ""} :
          \E j \in 1..Len(grantees_processed), i \in 1..Len(points_with_tracts) :
             /\ grantees_processed[j].GOC_TRACK_TYPE = label
             /\ points_with_tracts[i].geometry \in grantees_processed[j].geometry

\* The number of rows the sources read before the n-th one hold: the row
\* label of the n-th source's first point.
RECURSIVE offset(_)
offset(n) ==
    IF n = 1 THEN 0 ELSE offset(n - 1) + Len(input[SourceFiles[n - 1]].rows)

\* The input points a written row comes from: the source and the position of
\* the records at the row's label whose normalized values the row carries.
Origins(row) ==
    {o \in UNION {{n} \X (1..Len(input[SourceFiles[n]].rows)) :
                      n \in 1..Len(SourceFiles)} :
        /\ offset(o[1]) + o[2] - 1 = row.index
        /\ \A c \in AllColumns :
              row[c] = pad(normalize(SourceFiles[o[1]],
                                     input[SourceFiles[o[1]]].rows[o[2]]))[c]}

\* C5: every row of a per-type file comes from exactly one input point of
\* exactly one source and is of the file's type, and no point has rows in two
\* per-type files.
C5_CoverageInvariant ==
    /\ \A t \in Types : \A i \in 1..Len(Rows(filename(t))) :
          /\ Cardinality(Origins(Rows(filename(t))[i])) = 1
          /\ Rows(filename(t))[i].type = t
    /\ \A t1, t2 \in Types :
          t1 # t2 =>
              \A i \in 1..Len(Rows(filename(t1))), j \in 1..Len(Rows(filename(t2))) :
                  Rows(filename(t1))[i].index # Rows(filename(t2))[j].index

\* A finished run that wrote rows to the files of two types.
C5_Witness ==
    /\ pc = "done"
    /\ \E t1, t2 \in Types :
          t1 # t2 /\ Rows(filename(t1)) # <<>> /\ Rows(filename(t2)) # <<>>

\* C10: a per-type file exists only with rows in it and only for a type some
\* canonical point inside the boundary union has.
C10_NoEmptyTypeFile ==
    \A t \in Types :
        output[filename(t)].exists
        => /\ Rows(filename(t)) # <<>>
           /\ \E p \in 1..Len(all_points) :
                 all_points[p].type = t /\ ~Outside(all_points[p])

\* A finished run that wrote the file of one type and none for another type,
\* whose only point lies outside the boundary union.
C10_Witness ==
    /\ pc = "done"
    /\ \E t1, t2 \in Types :
          /\ output[filename(t1)].exists
          /\ ~output[filename(t2)].exists
          /\ \E p \in 1..Len(all_points) : all_points[p].type = t2

Processed == pc \notin {"fetch", "process"}

\* The positions of the raw rows of the region g, and the first of them.
GroupOf(g) == {i \in 1..Len(grantees_gdf) : grantees_gdf[i].GEOID20 = g}

FirstOf(I) == CHOOSE i \in I : \A j \in I : i <= j

\* The non-null organization names of the region g, and the position of the
\* first raw row carrying the name n.
NamesOf(g) ==
    {grantees_gdf[i].ORGANIZATION_NAME : i \in GroupOf(g)} \ {Null}

FirstNamed(g, n) ==
    FirstOf({i \in GroupOf(g) : grantees_gdf[i].ORGANIZATION_NAME = n})

\* The names of the region g, each once, ordered by first appearance.
NamesInOrder(g) ==
    CHOOSE names \in [1..Cardinality(NamesOf(g)) -> NamesOf(g)] :
        \A a, b \in 1..Cardinality(NamesOf(g)) :
            a < b => FirstNamed(g, names[a]) < FirstNamed(g, names[b])

\* C6: the organization names of every region are its distinct non-null raw
\* names, each once, in order of first appearance, joined by "; ".
C6_OrganizationNames ==
    Processed =>
        \A j \in 1..Len(grantees_processed) :
            grantees_processed[j].ORGANIZATION_NAME
                = join("; ", NamesInOrder(grantees_processed[j].GEOID20))

\* Three raw rows of one region named A, B, A (and a region whose only name
\* is null) give "A; B" (and the empty string).
C6_Witness ==
    /\ Processed
    /\ \E g \in RegionIds :
          /\ column(group(grantees_gdf, g), "ORGANIZATION_NAME") = <<"A", "B", "A">>
          /\ \E j \in 1..Len(grantees_processed) :
                /\ grantees_processed[j].GEOID20 = g
                /\ grantees_processed[j].ORGANIZATION_NAME = "A; B"

\* C7: the processed frame has one row per non-null raw GEOID20, none twice
\* and none missing, with the geometry of the first raw row of that id.
C7_OneRowPerRegion ==
    Processed =>
        /\ {grantees_processed[j].GEOID20 : j \in 1..Len(grantees_processed)}
               = {grantees_gdf[i].GEOID20 : i \in 1..Len(grantees_gdf)} \ {Null}
        /\ \A i, j \in 1..Len(grantees_processed) :
              grantees_processed[i].GEOID20 = grantees_processed[j].GEOID20 => i = j
        /\ \A j \in 1..Len(grantees_processed) :
              grantees_processed[j].geometry
                  = grantees_gdf[FirstOf(GroupOf(grantees_processed[j].GEOID20))].geometry

\* A region with two raw rows of different polygons has been processed.
C7_Witness ==
    /\ Processed
    /\ \E i, j \in 1..Len(grantees_gdf) :
          /\ i < j
          /\ grantees_gdf[i].GEOID20 = grantees_gdf[j].GEOID20
          /\ grantees_gdf[i].GEOID20 # Null
          /\ grantees_gdf[i].geometry # grantees_gdf[j].geometry

LabelledOf(g) == {i \in GroupOf(g) : grantees_gdf[i].GOC_TRACK_TYPE # Null}

InEligible(point) ==
    \E j \in 1..Len(grantees_processed) :
        /\ EligibleRegion(grantees_processed[j])
        /\ point.geometry \in grantees_processed[j].geometry

\* C11: when run is done, every canonical point inside the boundary union
\* has a row in the file of its type, eligible or not, and the rows of a point
\* inside no eligible region carry a missing GEOID20 and grantee = false.
C11_TypeFilesKeepIneligible ==
    pc = "done" =>
        \A p \in 1..Len(all_points) :
            ~Outside(all_points[p])
            => LET rows == Rows(filename(all_points[p].type))
                   mine == {i \in 1..Len(rows) : rows[i].index = all_points[p].index}
               IN /\ mine # {}
                  /\ ~InEligible(all_points[p])
                     => \A i \in mine :
                            rows[i].GEOID20 = Null /\ rows[i].grantee = FALSE

\* A finished run with a point inside the boundary union and no eligible
\* region, and a point inside an eligible region.
C11_Witness ==
    /\ pc = "done"
    /\ \E p \in 1..Len(all_points) :
          ~Outside(all_points[p]) /\ ~InEligible(all_points[p])
    /\ \E p \in 1..Len(all_points) : InEligible(all_points[p])

\* C12: a second call of run on the inputs of the first (the same boundary
\* rows in the cache and on the server, the same six source files) leaves every
\* output file as the first call left it.
C12_SecondRunSameOutputs ==
    (runs >= 2 /\ pc = "done") => output = at_call.output

\* A second run has finished and the tabular extract and a type file hold rows.
C12_Witness ==
    /\ runs = 2
    /\ pc = "done"
    /\ Rows("grantee_points.csv") # <<>>
    /\ \E t \in Types : output[filename(t)].exists
    /\ output["grantees.geojson"].rows # <<>>

\* A source file is missing, or lacks a column the normalizer reads.
Unreadable(f) ==
    ~input[f].exists \/ ~(required(f) \subseteq input[f].columns)

Normalized == pc \in {"join", "csv", "types", "done"}

\* C15: the canonical row of every credit-union record carries
\* payday_alternative_loans = palS_I or palS_II, and the canonical row of every
\* bank record carries a missing value for every financial service flag.
C15_PaydayAlternativeLoans ==
    Normalized =>
        /\ \A i \in 1..Len(input["ncua.geojson"].rows) :
              LET r == input["ncua.geojson"].rows[i]
                  point == all_points[offset(3) + i]
              IN /\ point.tag = "credit_union"
                 /\ point.payday_alternative_loans \in {"True", "False"}
                 /\ point.payday_alternative_loans = "True"
                        <=> (r.palS_I = "True" \/ r.palS_II = "True")
        /\ \A i \in 1..Len(input["fdic.geojson"].rows) :
              LET point == all_points[offset(2) + i]
              IN /\ point.tag = "bank"
                 /\ \A c \in Range(ncua_boolean_fields) : point[c] = Null

\* The points are normalized, with a credit union that has one of the two
\* flags set, one that has none, and a bank.
C15_Witness ==
    /\ Normalized
    /\ \E i \in 1..Len(input["ncua.geojson"].rows) :
          LET r == input["ncua.geojson"].rows[i]
          IN r.palS_I = "True" /\ r.palS_II = "False"
    /\ \E i \in 1..Len(input["ncua.geojson"].rows) :
          LET r == input["ncua.geojson"].rows[i]
          IN r.palS_I = "False" /\ r.palS_II = "False"
    /\ input["fdic.geojson"].rows # <<>>

\* A row of resources.csv whose latitude or longitude is missing or is not a
\* number.
BadCoordinate(r) ==
    r.lat \in {NaN, NotANumber} \/ r.lng \in {NaN, NotANumber}

\* C19: a row of resources.csv with a missing or unparseable coordinate does
\* not fail the run.
C19_BadCoordinateNoFailure ==
    (\E i \in 1..Len(input["resources.csv"].rows) :
        BadCoordinate(input["resources.csv"].rows[i]))
        => pc # "raised"

\* C16: once run is past loading the boundary rows, it has called the server
\* exactly when it was forced, or found no cache file, or found a cache file it
\* could not read; otherwise the rows it holds are the cache's and the cache
\* file is as it was.
C16_DownloadIffNeeded ==
    pc # "fetch" =>
        /\ requested <=> \/ at_call.force
                         \/ ~at_call.cache.exists
                         \/ (at_call.cache.exists /\ ~at_call.cache.readable)
        /\ ~requested => grantees_gdf = at_call.cache.rows /\ cache = at_call.cache

\* An unforced run that found an unreadable cache file has called the server,
\* in a second call of run.
C16_Witness ==
    /\ pc # "fetch"
    /\ runs = 2
    /\ requested
    /\ ~at_call.force
    /\ at_call.cache.exists
    /\ ~at_call.cache.readable

\* C14: every canonical point has a non-empty type and a non-empty tag.
C14_TypeAndTagNonEmpty ==
    \A i \in 1..Len(all_points) :
        /\ all_points[i].type \notin {Null, ""}
        /\ all_points[i].tag \notin {Null, ""}

\* The calls main makes when no call raises: the fetchers whose flag is set,
\* in the order of main, then combine_data.
RECURSIVE Enabled(_)
Enabled(order) ==
    IF order = <<>> THEN <<>>
    ELSE (IF REFRESH[Head(order)[1]] THEN <<Head(order)[2]>> ELSE <<>>)
             \o Enabled(Tail(order))

ExpectedCalls ==
    Enabled(<<<<"osm", "osm">>, <<"financial", "financial">>,
              <<"childcare", "maryland_excel">>,
              <<"foodbank", "maryland_food_bank">>,
              <<"foodbank", "capital_area_food_bank">>>>)
        \o <<"combine_data">>

MainEnded == main_pc \in {"done", "raised"}

ExcelCalled == calls' = Append(calls, "maryland_excel")

OutputsExist == childcare_csv.exists /\ input["childcare.geojson"].exists

OutputsUnchanged == childcare_csv' = childcare_csv /\ input' = input

Precedes(a, b) ==
    \A j \in 1..Len(steps) :
        steps[j] = b => \E i \in 1..(j - 1) : steps[i] = a

\* C20 as stated: the Boundary Loader's step (deduplication, aggregation,
\* eligibility filter) is taken only after the normalizer has produced the
\* canonical point set.
C20_NormalizerBeforeLoader ==
    \A j \in 1..Len(steps) :
        steps[j] = "process" => \E i \in 1..(j - 1) : steps[i] = "points"

\* C20 amended: the components run in the order Boundary Loader, Schema
\* Normalizer, Spatial Join, Emitter: the points are normalized only after the
\* boundary rows are processed, joined only after they are normalized, and no
\* output is written before the join is complete.
C20_LoaderNormalizerJoinEmit ==
    /\ Precedes("fetch", "process")
    /\ Precedes("process", "points")
    /\ Precedes("points", "join")
    /\ Precedes("join", "csv")
    /\ Precedes("csv", "types")
    /\ written # <<>> => \E i \in 1..Len(steps) : steps[i] = "join"
    /\ pc \in {"fetch", "process", "points"} => points_with_tracts = <<>>

\* A finished run: every component has run and the outputs are written.
C20_Witness ==
    /\ pc = "done"
    /\ steps = <<"fetch", "process", "points", "join", "csv", "types", "types">>
    /\ Len(written) = 3

\* run has gone on from loading the boundary rows.
GoesOn == pc \in {"process", "points", "join", "csv", "types", "done"}

\* C21 as stated: after a download that failed, run goes on with the rows of the
\* cache file whenever a cache file exists, and has returned, with no point source
\* read and no output written, when there is none.
C21_FallbackOrReturn ==
    response = "failed" =>
        /\ at_call.cache.exists => GoesOn /\ grantees_gdf = cache.rows
        /\ ~at_call.cache.exists
               => /\ pc = "returned"
                  /\ all_points = <<>>
                  /\ written = <<>>

\* C21 amended: after a download that failed, run goes on with the rows of the
\* cache file when the file exists and can be read; it ends in the read error
\* when the file exists and cannot be read, and has returned when there is no
\* file, in both cases with no point source read and no output written.
C21_FallbackIfReadable ==
    response = "failed" =>
        /\ at_call.cache.readable
               => GoesOn /\ grantees_gdf = at_call.cache.rows
        /\ (at_call.cache.exists /\ ~at_call.cache.readable)
               => /\ pc = "raised"
                  /\ steps = <<"fetch">>
                  /\ all_points = <<>>
                  /\ written = <<>>
        /\ ~at_call.cache.exists
               => /\ pc = "returned"
                  /\ steps = <<"fetch">>
                  /\ all_points = <<>>
                  /\ written = <<>>

\* A run whose download failed has finished and written the regions of a cache
\* file that holds other rows than the server.
C21_Witness ==
    /\ response = "failed"
    /\ pc = "done"
    /\ Len(written) >= 2
    /\ output["grantees.geojson"].rows # <<>>
    /\ at_call.cache.rows # remote

\* C22: the cache file changes only in a step in which the request succeeded,
\* and then it holds what the server holds; a step in which the request failed
\* leaves the file as it was, in every call of run.
C22_CacheWrittenOnSuccessOnly ==
    [][/\ cache' # cache
           => /\ pc = "fetch"
              /\ response' = "ok"
              /\ cache' = [exists |-> TRUE, readable |-> TRUE, rows |-> remote]
       /\ (pc = "fetch" /\ response' = "failed") => cache' = cache]_vars

\* In a second call of run the download has failed again and the cache file
\* still holds its rows, which are not the server's.
C22_Witness ==
    /\ runs = 2
    /\ response = "failed"
    /\ cache = at_call.cache
    /\ cache.readable
    /\ cache.rows # <<>>
    /\ cache.rows # remote

====
